---- MODULE Spec2Model ----
(***************************************************************************)
(* Patient Monitoring Dashboard (src/app.py): a Streamlit script that is   *)
(* run from top to bottom once per page run.  Every browser session has    *)
(* its own st.session_state and its own script runs; all sessions share    *)
(* the alert log alerts.csv.  The Home page polls the Flask API, shows the *)
(* connection banner, checks the last row of the fetched table against the *)
(* thresholds, appends alerts to the log, sleeps and reruns itself.        *)
(*                                                                         *)
(* Numbers read from the CSV are kept in tenths (Scale), text fields are   *)
(* sequences of one-character strings, and a timestamp is the number of    *)
(* seconds since a fixed instant.                                          *)
(***************************************************************************)
EXTENDS Integers, Sequences, FiniteSets, TLC

\* ------------------------------------------------------------------ bounds
NumSessions == 2
MaxLog == 2
MaxRows == 2

\* --------------------------------------------------------------- constants
CONNECTION_THRESHOLD == 20
Scale == 10

Sessions == 1..NumSessions
Pages == {"Home", "Alerts", "BP Measurement", "Data Download"}

TemperatureMsg == "Temperature Alert"
OxygenMsg == "Oxygen Level Alert"
HeartRateMsg == "Heart Rate Alert"
RespirationMsg == "Respiration Rate Alert"

\* ------------------------------------------------------- values and parsing
\* A numeric cell of the DataFrame: NaN/NaT (na) or a number v.
NaN == [na |-> TRUE, v |-> 0]
Num(x) == [na |-> FALSE, v |-> x]

Digits == {"0", "1", "2", "3", "4", "5", "6", "7", "8", "9"}

DigitVal(c) ==
  CASE c = "0" -> 0 [] c = "1" -> 1 [] c = "2" -> 2 [] c = "3" -> 3
    [] c = "4" -> 4 [] c = "5" -> 5 [] c = "6" -> 6 [] c = "7" -> 7
    [] c = "8" -> 8 [] c = "9" -> 9

RECURSIVE DigitsVal(_)
DigitsVal(t) ==
  IF t = <<>> THEN 0
  ELSE 10 * DigitsVal(SubSeq(t, 1, Len(t) - 1)) + DigitVal(t[Len(t)])

AllDigits(t) == \A i \in 1..Len(t) : t[i] \in Digits

DotAt(t) == {i \in 1..Len(t) : t[i] = "."}

\* The text of an unsigned decimal with at most one fractional digit.
IsDecimal(t) ==
  \/ Len(t) > 0 /\ AllDigits(t)
  \/ /\ Cardinality(DotAt(t)) = 1
     /\ LET p == CHOOSE i \in DotAt(t) : TRUE
            ip == SubSeq(t, 1, p - 1)
            fp == SubSeq(t, p + 1, Len(t))
        IN AllDigits(ip) /\ AllDigits(fp) /\ Len(ip) + Len(fp) > 0 /\ Len(fp) <= 1

DecimalVal(t) ==
  IF DotAt(t) = {} THEN Scale * DigitsVal(t)
  ELSE LET p == CHOOSE i \in DotAt(t) : TRUE
       IN Scale * DigitsVal(SubSeq(t, 1, p - 1)) + DigitsVal(SubSeq(t, p + 1, Len(t)))

to_numeric_fillzero(t) ==
  LET neg == Len(t) > 0 /\ t[1] = "-"
      body == IF neg THEN Tail(t) ELSE t
  IN IF IsDecimal(body)
     THEN Num(IF neg THEN 0 - DecimalVal(body) ELSE DecimalVal(body))
     ELSE Num(0)

\* pd.to_numeric(column, errors='coerce') on one cell: a blank cell (NaN after
\* read_csv) and a cell that is no number become NaN.
to_numeric(t) ==
  LET neg == Len(t) > 0 /\ t[1] = "-"
      body == IF neg THEN Tail(t) ELSE t
  IN IF IsDecimal(body)
     THEN Num(IF neg THEN 0 - DecimalVal(body) ELSE DecimalVal(body))
     ELSE NaN

\* pd.to_datetime on one cell: blank is NaT, anything that is no timestamp raises.
DatetimeRaises(t) == t # <<>> /\ ~AllDigits(t)
to_datetime(t) == IF t = <<>> THEN NaN ELSE Num(DigitsVal(t))

ParseRow(r) ==
  [Timestamp |-> to_datetime(r.Timestamp),
   Temperature |-> to_numeric(r.Temperature),
   BloodOxygen |-> to_numeric(r.BloodOxygen),
   HeartRate |-> to_numeric(r.HeartRate),
   RespirationRate |-> to_numeric(r.RespirationRate)]

\* load_data: the DataFrame and the notice shown, for one response of the API.
load_data(r) ==
  IF r.raises
  THEN [df |-> <<>>, notice |-> "Error fetching data from Flask"]
  ELSE IF r.status_code = 200
       THEN IF \E i \in 1..Len(r.text) : DatetimeRaises(r.text[i].Timestamp)
            THEN [df |-> <<>>, notice |-> "Error fetching data from Flask"]
            ELSE [df |-> [i \in 1..Len(r.text) |-> ParseRow(r.text[i])],
                  notice |-> "none"]
       ELSE [df |-> <<>>, notice |-> "No data available from Flask."]

Last(s) == s[Len(s)]

\* DataFrame.tail(5)
Tail5(d) == SubSeq(d, IF Len(d) > 5 THEN Len(d) - 4 ELSE 1, Len(d))

is_hardware_connected_strict(d, now) ==
  IF d = <<>> THEN FALSE
  ELSE LET latest_timestamp == Last(d).Timestamp
       IN ~latest_timestamp.na /\ now - latest_timestamp.v < CONNECTION_THRESHOLD

\* is_hardware_connected: a NaT timestamp makes time_diff NaN, and NaN <= 20 is False.
is_hardware_connected(d, now) ==
  IF d = <<>> THEN FALSE
  ELSE LET latest_timestamp == Last(d).Timestamp
       IN ~latest_timestamp.na /\ now - latest_timestamp.v <= CONNECTION_THRESHOLD

\* ------------------------------------------------------------ threshold rules
notna(x) == ~x.na

TemperatureAlert_inclusive(temp) ==
  notna(temp) /\ (temp.v <= 36 * Scale \/ temp.v > 38 * Scale)

TemperatureAlert(temp) ==
  notna(temp) /\ (temp.v < 36 * Scale \/ temp.v > 38 * Scale)

OxygenAlert(spo2) == notna(spo2) /\ spo2.v < 90 * Scale

HeartRateAlert(hr) == notna(hr) /\ (hr.v < 60 * Scale \/ hr.v > 100 * Scale)

RespirationAlert(resp_rate) ==
  notna(resp_rate) /\ (resp_rate.v < 12 * Scale \/ resp_rate.v > 20 * Scale)

\* ------------------------------------------------------------------ alert log
concat_dedup(alerts_read, message) ==
  IF alerts_read # <<>> /\ Last(alerts_read) = message
  THEN alerts_read
  ELSE Append(alerts_read, message)

concat_new_only(alerts_read, message) == <<message>>

\* save_alert, line 65: pd.concat([alerts, new_alert], ignore_index=True)
concat(alerts_read, message) == Append(alerts_read, message)

AlertIndicator_ignores_viewed(alerts_read, viewed) == alerts_read # <<>>

\* The sidebar indicator, line 73.
AlertIndicator(alerts_read, viewed) == alerts_read # <<>> /\ ~viewed

\* --------------------------------------------------------------------- inputs
\* Cells of the CSV the API serves.  The temperature, oxygen, heart-rate and
\* respiration cells cover both sides of every threshold, blank and garbage.
Blank == <<>>
Garbage == <<"a", "b", "c">>

TemperatureCells ==
  {Blank, Garbage, <<"3", "5", ".", "9">>, <<"3", "6">>, <<"3", "8">>,
   <<"3", "8", ".", "1">>}
OxygenCells == {Blank, <<"8", "9", ".", "9">>, <<"9", "0">>}
HeartRateCells == {Blank, <<"5", "9">>, <<"6", "0">>, <<"1", "0", "0">>, <<"1", "0", "1">>}
RespirationCells == {Blank, <<"1", "1">>, <<"1", "2">>, <<"2", "0">>, <<"2", "1">>}

\* Timestamps 1 s, 2 s and 3 s, a blank one and one that does not parse.
TimestampCells == {Blank, <<"1">>, <<"2">>, <<"3">>}
BadTimestamp == <<"x">>

\* What datetime.now() returns when the banner is computed.
Clock == {22, 23}

\* Rows with every combination of the vitals' cells, at timestamp 2 s.
VitalsRows ==
  [Timestamp : {<<"2">>}, Temperature : TemperatureCells, BloodOxygen : OxygenCells,
   HeartRate : HeartRateCells, RespirationRate : RespirationCells]

\* Rows with every timestamp: one with all vitals in range, one with a
\* temperature of 0 and the other vitals in range.
NormalVitals ==
  [Temperature |-> <<"3", "7">>, BloodOxygen |-> <<"9", "5">>,
   HeartRate |-> <<"7", "2">>, RespirationRate |-> <<"1", "6">>]
ColdVitals == [NormalVitals EXCEPT !.Temperature = <<"0">>]

TimedRow(ts, vitals) ==
  [Timestamp |-> ts, Temperature |-> vitals.Temperature,
   BloodOxygen |-> vitals.BloodOxygen, HeartRate |-> vitals.HeartRate,
   RespirationRate |-> vitals.RespirationRate]

TimedRows == {TimedRow(ts, vs) : ts \in TimestampCells, vs \in {NormalVitals, ColdVitals}}

SeqsUpTo(S, n) == UNION {[1..k -> S] : k \in 0..n}

\* CSV bodies: single rows over all vitals, tables of up to MaxRows rows in any
\* order of timestamps, and a table whose timestamp column does not parse.
Tables ==
  {<<r>> : r \in VitalsRows} \cup SeqsUpTo(TimedRows, MaxRows)
    \cup {<<TimedRow(BadTimestamp, NormalVitals)>>}

OkResponse(t) == [raises |-> FALSE, status_code |-> 200, text |-> t]
HttpError == [raises |-> FALSE, status_code |-> 503, text |-> <<>>]
NetworkError == [raises |-> TRUE, status_code |-> 0, text |-> <<>>]
NoResponse == [raises |-> FALSE, status_code |-> 0, text |-> <<>>]

Responses == {OkResponse(t) : t \in Tables} \cup {HttpError, NetworkError}

\* The responses of the runs with several sessions or a failing disk, and of
\* the pages that show nothing of a response but a notice.
FewResponses ==
  {OkResponse(<<TimedRow(<<"2">>, ColdVitals)>>),
   OkResponse(<<TimedRow(<<"2">>, [ColdVitals EXCEPT !.HeartRate = <<"1", "0", "1">>])>>),
   OkResponse(<<TimedRow(<<"3">>, NormalVitals)>>), HttpError, NetworkError}

\* alerts.csv outlives the sessions: it may hold alerts when a session starts.
InitialLogs == {<<>>, <<HeartRateMsg>>}

\* ---------------------------------------------------------------------- state
VARIABLES
  alertsFile,     \* the rows of alerts.csv (the Alert column), shared
  saved,          \* the initial log, then the message of every completed save_alert
  page,           \* the sidebar radio of each session
  pc,             \* where each session's script run stands
  alerts_viewed,  \* st.session_state.alerts_viewed
  alerts_df,      \* alerts_df read at line 72 of the current run
  indicator,      \* the "Active Alerts!" mark of the current run
  response,       \* the API's response of the current run
  df,             \* load_data()'s DataFrame
  current_time,   \* datetime.now() read by is_hardware_connected
  banner,         \* the connection banner of the current run
  notice,         \* load_data's warning or error of the current run
  latest,         \* the row the threshold checks read (.iloc[-1]), as <<row>>
  alerts          \* save_alert's local DataFrame read at line 63

vars ==
  <<alertsFile, saved, page, pc, alerts_viewed, alerts_df, indicator, response, df,
    current_time, banner, notice, latest, alerts>>

Init ==
  /\ alertsFile \in InitialLogs
  /\ saved = alertsFile
  /\ page = [s \in Sessions |-> "Home"]
  /\ pc = [s \in Sessions |-> "start"]
  /\ alerts_viewed = [s \in Sessions |-> FALSE]
  /\ alerts_df = [s \in Sessions |-> <<>>]
  /\ indicator = [s \in Sessions |-> FALSE]
  /\ response = [s \in Sessions |-> NoResponse]
  /\ df = [s \in Sessions |-> <<>>]
  /\ current_time = [s \in Sessions |-> 0]
  /\ banner = [s \in Sessions |-> "none"]
  /\ notice = [s \in Sessions |-> "none"]
  /\ latest = [s \in Sessions |-> <<>>]
  /\ alerts = [s \in Sessions |-> <<>>]

\* ------------------------------------------------------------------- actions
\* Lines 25-26 and 69-74: a run starts on page p, reads the alert log and
\* decides the indicator; everything a run computes is the run's own.
RunScript(s, p) ==
  /\ page' = [page EXCEPT ![s] = p]
  /\ alerts_df' = [alerts_df EXCEPT ![s] = alertsFile]
  /\ indicator' = [indicator EXCEPT ![s] = AlertIndicator(alertsFile, alerts_viewed[s])]
  /\ response' = [response EXCEPT ![s] = NoResponse]
  /\ df' = [df EXCEPT ![s] = <<>>]
  /\ current_time' = [current_time EXCEPT ![s] = 0]
  /\ banner' = [banner EXCEPT ![s] = "none"]
  /\ notice' = [notice EXCEPT ![s] = "none"]
  /\ latest' = [latest EXCEPT ![s] = <<>>]
  /\ alerts' = [alerts EXCEPT ![s] = <<>>]
  /\ pc' = [pc EXCEPT ![s] = "page"]
  /\ UNCHANGED <<alertsFile, saved, alerts_viewed>>

\* The first run of a session, and st.rerun() after time.sleep(10) (lines 146-147).
Rerun(s) ==
  /\ pc[s] \in {"start", "sleep"}
  /\ RunScript(s, page[s])

\* The user picks a page in the sidebar (or touches a widget of a finished page).
Navigate(s) ==
  /\ pc[s] \in {"start", "sleep", "idle", "stopped"}
  /\ \E p \in Pages :
       /\ pc[s] \in {"start", "sleep"} => p # page[s]
       /\ RunScript(s, p)

\* Lines 77-85: load_data and the connection banner.
HomeFetch(s, resps) ==
  /\ pc[s] = "page" /\ page[s] = "Home"
  /\ \E r \in resps, now \in Clock :
       LET got == load_data(r) IN
       /\ response' = [response EXCEPT ![s] = r]
       /\ df' = [df EXCEPT ![s] = got.df]
       /\ notice' = [notice EXCEPT ![s] = got.notice]
       /\ current_time' = [current_time EXCEPT ![s] = now]
       /\ banner' = [banner EXCEPT ![s] =
                       IF is_hardware_connected(got.df, now)
                       THEN "Device Connected" ELSE "Device Disconnected"]
  /\ pc' = [pc EXCEPT ![s] = "fetched"]
  /\ UNCHANGED <<alertsFile, saved, page, alerts_viewed, alerts_df, indicator, latest, alerts>>

\* Lines 87-94: no data ends the run's checks; else the checks read the last
\* row of df.tail(5).  The other rows only feed the charts, and the response
\* and the clock are not read again.
HomeWindow(s) ==
  /\ pc[s] = "fetched"
  /\ IF df[s] = <<>>
     THEN /\ notice' = [notice EXCEPT ![s] = "No data available."]
          /\ pc' = [pc EXCEPT ![s] = "sleep"]
          /\ UNCHANGED latest
     ELSE /\ latest' = [latest EXCEPT ![s] = <<Last(Tail5(df[s]))>>]
          /\ pc' = [pc EXCEPT ![s] = "temp"]
          /\ UNCHANGED notice
  /\ response' = [response EXCEPT ![s] = NoResponse]
  /\ df' = [df EXCEPT ![s] = <<>>]
  /\ current_time' = [current_time EXCEPT ![s] = 0]
  /\ UNCHANGED <<alertsFile, saved, page, alerts_viewed, alerts_df, indicator, banner, alerts>>

\* One threshold check: when the rule fires, save_alert is entered and reads
\* the log (lines 62-63); else the run goes on to the next check.
Check(s, at, fires, saving, next) ==
  /\ pc[s] = at
  /\ IF fires
     THEN /\ Len(alertsFile) < MaxLog
          /\ alerts' = [alerts EXCEPT ![s] = alertsFile]
          /\ pc' = [pc EXCEPT ![s] = saving]
     ELSE /\ pc' = [pc EXCEPT ![s] = next]
          /\ UNCHANGED alerts
  /\ UNCHANGED <<alertsFile, saved, page, alerts_viewed, alerts_df, indicator, response,
                 df, current_time, banner, notice, latest>>

\* Lines 94-98
CheckTemperature(s) ==
  Check(s, "temp", TemperatureAlert(latest[s][1].Temperature), "save_temp", "spo2")

\* Lines 107-111
CheckBloodOxygen(s) ==
  Check(s, "spo2", OxygenAlert(latest[s][1].BloodOxygen), "save_spo2", "hr")

\* Lines 120-124
CheckHeartRate(s) ==
  Check(s, "hr", HeartRateAlert(latest[s][1].HeartRate), "save_hr", "resp")

\* Lines 133-137
CheckRespirationRate(s) ==
  Check(s, "resp", RespirationAlert(latest[s][1].RespirationRate), "save_resp", "sleep")

SavePcs == {"save_temp", "save_spo2", "save_hr", "save_resp"}

SaveMessage(at) ==
  CASE at = "save_temp" -> TemperatureMsg
    [] at = "save_spo2" -> OxygenMsg
    [] at = "save_hr" -> HeartRateMsg
    [] at = "save_resp" -> RespirationMsg

AfterSave(at) ==
  CASE at = "save_temp" -> "spo2"
    [] at = "save_spo2" -> "hr"
    [] at = "save_hr" -> "resp"
    [] at = "save_resp" -> "sleep"

\* Lines 64-66: the log read at line 63, with the new alert, replaces the file.
SaveAlertWrite(s) ==
  /\ pc[s] \in SavePcs
  /\ alertsFile' = concat(alerts[s], SaveMessage(pc[s]))
  /\ saved' = Append(saved, SaveMessage(pc[s]))
  /\ pc' = [pc EXCEPT ![s] = AfterSave(pc[s])]
  /\ UNCHANGED <<page, alerts_viewed, alerts_df, indicator, response, df, current_time,
                 banner, notice, latest, alerts>>

\* Line 66 raises (the file cannot be written): nothing catches it, the run
\* ends with the traceback and lines 146-147 are not reached.
SaveAlertFail(s) ==
  /\ pc[s] \in SavePcs
  /\ pc' = [pc EXCEPT ![s] = "stopped"]
  /\ UNCHANGED <<alertsFile, saved, page, alerts_viewed, alerts_df, indicator, response,
                 df, current_time, banner, notice, latest, alerts>>

\* Lines 149-164: the Alerts page marks the alerts viewed and lists the log.
AlertsPage(s) ==
  /\ pc[s] = "page" /\ page[s] = "Alerts"
  /\ alerts_viewed' = [alerts_viewed EXCEPT ![s] = TRUE]
  /\ alerts_df' = [alerts_df EXCEPT ![s] = alertsFile]
  /\ notice' = [notice EXCEPT ![s] =
                  IF alertsFile = <<>> THEN "No alerts recorded." ELSE "none"]
  /\ pc' = [pc EXCEPT ![s] = "idle"]
  /\ UNCHANGED <<alertsFile, saved, page, indicator, response, df, current_time, banner,
                 latest, alerts>>

\* Lines 166-190: the BP form and the last measured BP; load_data's notice shows.
BPPage(s, resps) ==
  /\ pc[s] = "page" /\ page[s] = "BP Measurement"
  /\ \E r \in resps : notice' = [notice EXCEPT ![s] = load_data(r).notice]
  /\ pc' = [pc EXCEPT ![s] = "idle"]
  /\ UNCHANGED <<alertsFile, saved, page, alerts_viewed, alerts_df, indicator, response,
                 df, current_time, banner, latest, alerts>>

\* Lines 192-203: the download button, or the warning when there is no data.
DownloadPage(s, resps) ==
  /\ pc[s] = "page" /\ page[s] = "Data Download"
  /\ \E r \in resps :
       LET got == load_data(r) IN
       notice' = [notice EXCEPT ![s] =
                    IF got.df = <<>> THEN "No data available to download."
                    ELSE got.notice]
  /\ pc' = [pc EXCEPT ![s] = "idle"]
  /\ UNCHANGED <<alertsFile, saved, page, alerts_viewed, alerts_df, indicator, response,
                 df, current_time, banner, latest, alerts>>

\* ------------------------------------------------------------ specifications
\* One session, a disk that takes every write.
Next ==
  \/ Rerun(1)
  \/ Navigate(1)
  \/ HomeFetch(1, Responses)
  \/ HomeWindow(1)
  \/ CheckTemperature(1)
  \/ CheckBloodOxygen(1)
  \/ CheckHeartRate(1)
  \/ CheckRespirationRate(1)
  \/ SaveAlertWrite(1)
  \/ AlertsPage(1)
  \/ BPPage(1, FewResponses)
  \/ DownloadPage(1, FewResponses)

Spec == Init /\ [][Next]_vars

\* Every session refreshing its Home page against the one alerts.csv.
NextConc ==
  \E s \in Sessions :
    \/ Rerun(s)
    \/ HomeFetch(s, FewResponses)
    \/ HomeWindow(s)
    \/ CheckTemperature(s)
    \/ CheckBloodOxygen(s)
    \/ CheckHeartRate(s)
    \/ CheckRespirationRate(s)
    \/ SaveAlertWrite(s)

SpecConc == Init /\ [][NextConc]_vars

\* One session, a disk whose writes may fail.
NextFault ==
  \/ Rerun(1)
  \/ Navigate(1)
  \/ HomeFetch(1, FewResponses)
  \/ HomeWindow(1)
  \/ CheckTemperature(1)
  \/ CheckBloodOxygen(1)
  \/ CheckHeartRate(1)
  \/ CheckRespirationRate(1)
  \/ SaveAlertWrite(1)
  \/ SaveAlertFail(1)
  \/ AlertsPage(1)
  \/ BPPage(1, FewResponses)
  \/ DownloadPage(1, FewResponses)

SpecFault == Init /\ [][NextFault]_vars

\* ------------------------------------------------------------------ properties
Has(q, m) == \E i \in 1..Len(q) : q[i] = m
Count(q, m) == Cardinality({i \in 1..Len(q) : q[i] = m})
IsPrefix(a, b) == Len(a) <= Len(b) /\ SubSeq(b, 1, Len(a)) = a
Messages == {TemperatureMsg, OxygenMsg, HeartRateMsg, RespirationMsg}

\* What the log has gained since the current run of session s read it at line 72.
Recorded(s) == SubSeq(alertsFile, Len(alerts_df[s]) + 1, Len(alertsFile))

\* A Home tick that has a latest row and is at or past its checks.
Ticking(s) == latest[s] # <<>>

\* C1: when a Home tick has run its four checks (it is at the sleep), the log
\* has gained an alert of a kind exactly when the latest row's value of that
\* vital is present and strictly outside its range: temperature < 36 or > 38,
\* blood oxygen < 90, heart rate < 60 or > 100, respiration < 12 or > 20
\* (values in tenths); 36, 38, 90, 60, 100, 12 and 20 give no alert.
C1_ThresholdAlerts ==
  \A s \in Sessions :
    (pc[s] = "sleep" /\ Ticking(s)) =>
      LET r == latest[s][1]
          rec == Recorded(s)
      IN /\ Has(rec, TemperatureMsg) <=>
              (~r.Temperature.na /\ (r.Temperature.v < 360 \/ r.Temperature.v > 380))
         /\ Has(rec, OxygenMsg) <=> (~r.BloodOxygen.na /\ r.BloodOxygen.v < 900)
         /\ Has(rec, HeartRateMsg) <=>
              (~r.HeartRate.na /\ (r.HeartRate.v < 600 \/ r.HeartRate.v > 1000))
         /\ Has(rec, RespirationMsg) <=>
              (~r.RespirationRate.na
                 /\ (r.RespirationRate.v < 120 \/ r.RespirationRate.v > 200))

\* A finished tick on the row (38, 90, 101, 20): only the heart-rate alert.
C1_Witness ==
  /\ pc[1] = "sleep" /\ Ticking(1)
  /\ latest[1][1].Temperature = Num(380)
  /\ latest[1][1].BloodOxygen = Num(900)
  /\ latest[1][1].HeartRate = Num(1010)
  /\ latest[1][1].RespirationRate = Num(200)
  /\ Recorded(1) = <<HeartRateMsg>>

Vitals == {"Temperature", "BloodOxygen", "HeartRate", "RespirationRate"}

VitalMessage(c) ==
  CASE c = "Temperature" -> TemperatureMsg
    [] c = "BloodOxygen" -> OxygenMsg
    [] c = "HeartRate" -> HeartRateMsg
    [] c = "RespirationRate" -> RespirationMsg

\* C2: a cell of a vital that is blank or no number is absent in the parsed
\* table (never the number 0), and while a Home tick runs on a latest row whose
\* value of a vital is absent, the log gains no alert of that kind, whatever
\* the other values are.
C2_AbsentNoAlert ==
  \A s \in Sessions :
    /\ (pc[s] = "fetched" /\ df[s] # <<>>) =>
         \A i \in 1..Len(df[s]) : \A c \in Vitals :
           response[s].text[i][c] \in {Blank, Garbage} => df[s][i][c] = NaN
    /\ Ticking(s) =>
         \A c \in Vitals :
           latest[s][1][c].na => ~Has(Recorded(s), VitalMessage(c))

\* A finished tick on a row without blood oxygen and with a temperature of 35.9.
C2_Witness ==
  /\ pc[1] = "sleep" /\ Ticking(1)
  /\ latest[1][1].BloodOxygen.na
  /\ latest[1][1].Temperature = Num(359)
  /\ Recorded(1) = <<TemperatureMsg>>

\* C3: the banner computed on a Home tick says connected exactly when the
\* table has a row and the clock is at most 20 seconds past the timestamp of
\* its last row; without any row it says disconnected.
C3_ConnectivityRule ==
  \A s \in Sessions :
    pc[s] = "fetched" =>
      /\ banner[s] \in {"Device Connected", "Device Disconnected"}
      /\ banner[s] = "Device Connected" <=>
           /\ df[s] # <<>>
           /\ ~Last(df[s]).Timestamp.na
           /\ current_time[s] - Last(df[s]).Timestamp.v <= 20

\* A staleness of exactly 20 seconds, shown as connected.
C3_Witness ==
  /\ pc[1] = "fetched" /\ df[1] # <<>>
  /\ ~Last(df[1]).Timestamp.na
  /\ current_time[1] - Last(df[1]).Timestamp.v = 20
  /\ banner[1] = "Device Connected"

\* C4: the log is the initial log followed by the message of every save_alert
\* call made, one entry per call in the order of the calls: nothing is merged
\* or skipped when the kind repeats.
C4_NoDedup == alertsFile = saved

\* Two ticks in a row each recorded a temperature alert.
C4_Witness ==
  /\ alertsFile = <<TemperatureMsg, TemperatureMsg>>
  /\ pc[1] = "sleep" /\ Ticking(1)
  /\ Recorded(1) = <<TemperatureMsg>>

\* C5: every alert whose save_alert call has completed is in the log, as often
\* as it was saved.
C5_NoLostAlert == \A m \in Messages : Count(saved, m) <= Count(alertsFile, m)

\* C6: the row a Home tick uses for the banner and the checks (the last one)
\* carries the greatest timestamp of the fetched table.
C6_LatestIsGreatest ==
  \A s \in Sessions :
    (pc[s] = "fetched" /\ df[s] # <<>>
       /\ \A i \in 1..Len(df[s]) : ~df[s][i].Timestamp.na) =>
      \A i \in 1..Len(df[s]) : df[s][i].Timestamp.v <= Last(df[s]).Timestamp.v

\* C7: the viewed flag is false when the session starts, only the Alerts page
\* changes it, and it sets it; and the indicator decided at the start of a run
\* is shown exactly when the log is not empty and the flag is not set.
C7_IndicatorRule ==
  /\ \A s \in Sessions : ~alerts_viewed[s]
  /\ [](\A s \in Sessions :
          pc[s] = "page" => (indicator[s] <=> (alertsFile # <<>> /\ ~alerts_viewed[s])))
  /\ [][\A s \in Sessions :
          /\ alerts_viewed'[s] # alerts_viewed[s] => (pc[s] = "page" /\ page[s] = "Alerts")
          /\ (pc[s] = "page" /\ page[s] = "Alerts" /\ pc'[s] = "idle") => alerts_viewed'[s]]_vars

\* A run that starts with alerts in the log after the Alerts page was visited.
C7_Witness ==
  /\ pc[1] = "page" /\ alertsFile # <<>> /\ alerts_viewed[1] /\ ~indicator[1]

\* C8: on a Home tick whose fetch failed (an HTTP error status or an
\* exception), the banner does not say the device is disconnected.
C8_FetchFailureNotOffline ==
  \A s \in Sessions :
    (pc[s] = "fetched" /\ (response[s].raises \/ response[s].status_code # 200)) =>
      banner[s] # "Device Disconnected"

\* C9: every step leaves the log an extension of what it was, only a Home
\* tick inside save_alert changes it, and the step that marks the alerts viewed
\* leaves it as it is.
C9_LogOnlyGrows ==
  [][/\ IsPrefix(alertsFile, alertsFile')
     /\ alertsFile' # alertsFile => \E s \in Sessions : page[s] = "Home" /\ pc[s] \in SavePcs
     /\ alerts_viewed' # alerts_viewed => alertsFile' = alertsFile]_vars

\* The log has grown to two entries and the session has visited the Alerts page.
C9_Witness ==
  /\ alerts_viewed[1] /\ Len(alertsFile) >= 2 /\ Len(saved) > 1
  /\ page[1] = "Home" /\ pc[1] = "sleep"

\* C10: a Home run that is over has reached the sleep that schedules the next tick.
C10_RefreshNeverAborts ==
  \A s \in Sessions :
    (page[s] = "Home" /\ pc[s] \in {"idle", "sleep", "stopped"}) => pc[s] = "sleep"

====
